---- MODULE Spec2Model ----
(***************************************************************************)
(* Model of authentik's Kerberos source (authentik/sources/kerberos/       *)
(* models.py): the realm configuration scope (Krb5ConfContext), the        *)
(* credential resolution (_kadmin_init), the process-wide kadmin           *)
(* connection cache (connection), the health check (check_connection) and  *)
(* the redis sync lock (sync_lock).                                        *)
(*                                                                         *)
(* Python values: None is the string "None"; a str is a TLA+ string,       *)
(* except sync_keytab and the keytab reference handed to kadmin, which are *)
(* sequences of tokens so that the test ':' in keytab and the base64       *)
(* decoding can be computed; a dict is a function whose DOMAIN is the set  *)
(* of its keys; a kadmin.KAdmin object is a positive integer (its          *)
(* identity), a new one for every successful kadmin.init_* call.           *)
(***************************************************************************)
EXTENDS Integers, Sequences, FiniteSets, TLC

VARIABLES
    environ,             \* os.environ of the process (a dict)
    files,               \* the scratch file system: path -> content
    kadmin_connections,  \* KerberosSource._kadmin_connections: str(pk) -> session
    nsessions,           \* number of kadmin.KAdmin objects created so far
    returned,            \* per source identity: sessions connection() returned
    last,                \* the last completed call: input, pre-state, outcome
    ctx,                 \* per thread: stack of open Krb5ConfContext objects
    tpc,                 \* per thread: position inside __enter__ / body / __exit__
    nscopes,             \* number of with blocks entered so far
    now,                 \* wall clock of the deployment, in seconds
    redis,               \* the redis keys of the locks: name -> [token, expires]
    wpc,                 \* per worker: "idle", "running" or "dead"
    held,                \* per worker: the lock it acquired for its pass
    task_timeout_hours   \* CONFIG "kerberos.task_timeout_hours"

vars == << environ, files, kadmin_connections, nsessions, returned, last,
           ctx, tpc, nscopes,
           now, redis, wpc, held, task_timeout_hours >>

procVars == << environ, files, kadmin_connections, nsessions, returned, last >>
scopeVars == << ctx, tpc, nscopes >>
lockVars == << now, redis, wpc, held, task_timeout_hours >>

-----------------------------------------------------------------------------
(* Bounds of the model *)

\* kadmin.KAdmin objects that may be created in one behaviour
MaxSessions == 4

\* hours of wall clock a behaviour of the lock specification covers
MaxHours == 6

\* largest configured kerberos.task_timeout_hours
MaxTaskHours == 2

-----------------------------------------------------------------------------
(* Python values *)

None == "None"

\* no kadmin.KAdmin object (the None of line 106 and line 139)
NoSession == 0

\* truth value of an Optional[str]: None and "" are falsy
Truthy(v) == v # None /\ v # ""

\* d[k] = v on a dict
Put(d, k, v) == [q \in DOMAIN d \cup {k} |-> IF q = k THEN v ELSE d[q]]

\* del d[k] on a dict that has the key
Del(d, k) == [q \in DOMAIN d \ {k} |-> d[q]]

\* d.get(k, default)
Get(d, k, default) == IF k \in DOMAIN d THEN d[k] ELSE default

EmptyDict == << >>

KRB5_CONFIG == "KRB5_CONFIG"

RangeOf(s) == {s[i] : i \in DOMAIN s}

-----------------------------------------------------------------------------
(* base64: django.db.models.fields.b64decode is base64.b64decode *)

B64Alphabet ==
    << "A","B","C","D","E","F","G","H","I","J","K","L","M","N","O","P",
       "Q","R","S","T","U","V","W","X","Y","Z","a","b","c","d","e","f",
       "g","h","i","j","k","l","m","n","o","p","q","r","s","t","u","v",
       "w","x","y","z","0","1","2","3","4","5","6","7","8","9","+","/" >>

B64Index(c) == (CHOOSE i \in DOMAIN B64Alphabet : B64Alphabet[i] = c) - 1

\* the 6-bit values of the alphabet characters of s (others are discarded)
Sextets(s) ==
    LET kept == SelectSeq(s, LAMBDA c : c \in RangeOf(B64Alphabet))
    IN  [i \in 1..Len(kept) |-> B64Index(kept[i])]

\* the three bytes of a group of four sextets, missing sextets being 0
B64Quad(q) ==
    LET g(i) == IF i <= Len(q) THEN q[i] ELSE 0
        v == g(1) * 262144 + g(2) * 4096 + g(3) * 64 + g(4)
    IN  << v \div 65536, (v \div 256) % 256, v % 256 >>

\* the bytes of the sextets d: three of every full group, and one or two of
\* a last group of two or three sextets
B64Bytes(d) ==
    LET nbytes == (Len(d) * 6) \div 8
        group(j) == SubSeq(d, 4 * ((j - 1) \div 3) + 1,
                           IF 4 * ((j - 1) \div 3) + 4 <= Len(d)
                           THEN 4 * ((j - 1) \div 3) + 4 ELSE Len(d))
    IN  [j \in 1..nbytes |-> B64Quad(group(j))[((j - 1) % 3) + 1]]

B64Pad(s) == Cardinality({i \in DOMAIN s : s[i] = "="})

\* base64.b64decode(s) raises binascii.Error on a lone trailing character and
\* on padding that does not complete the last group
B64Valid(s) ==
    LET d == Sextets(s)
    IN  ~(Len(d) % 4 = 1 \/ (Len(d) % 4 # 0 /\ (Len(d) + B64Pad(s)) % 4 # 0))

\* base64.b64decode(s), the bytes, for an s that raises no error
b64decode(s) == B64Bytes(Sextets(s))

\* the four characters of a group of at most three bytes, missing bytes 0
B64EncodeGroup(b) ==
    LET g(i) == IF i <= Len(b) THEN b[i] ELSE 0
        v == g(1) * 65536 + g(2) * 256 + g(3)
    IN  << B64Alphabet[(v \div 262144) + 1],
           B64Alphabet[((v \div 4096) % 64) + 1],
           B64Alphabet[((v \div 64) % 64) + 1],
           B64Alphabet[(v % 64) + 1] >>

\* base64.b64encode(b): four characters for every three bytes, "=" where the
\* last group has no byte
b64encode(b) ==
    LET nchars == 4 * ((Len(b) + 2) \div 3)
        first(k) == 3 * ((k - 1) \div 4) + 1
        group(k) == SubSeq(b, first(k),
                           IF first(k) + 2 <= Len(b) THEN first(k) + 2
                           ELSE Len(b))
    IN  [k \in 1..nchars |->
            IF ((k - 1) % 4) + 1 <= Len(group(k)) + 1
            THEN B64EncodeGroup(group(k))[((k - 1) % 4) + 1]
            ELSE "="]

-----------------------------------------------------------------------------
(* The sources: rows of KerberosSource, read from the database by a call *)

Pks == {1, 2}

KeytabReference == << "FILE", ":", "/etc/krb5.keytab" >>
KeytabBase64 == b64encode(<< 65, 66, 67, 68 >>)

Sources ==
    [ pk : Pks,
      krb5_conf : {"", "[libdefaults]"},
      sync_users : BOOLEAN,
      sync_principal : {"", "admin/admin"},
      sync_password : {"", "hunter2"},
      sync_keytab : {<< >>, KeytabReference, KeytabBase64},
      sync_ccache : {"", "FILE:/tmp/krb5cc_0"} ]

\* KerberosSource.realm is unique per source
realm(self) == "REALM" \o ToString(self.pk)

\* Path(gettempdir()) / "authentik" / "sources" / "kerberos" / str(self.pk)
ScratchDir(pk) == "/tmp/authentik/sources/kerberos/" \o ToString(pk)
ConfPath(pk) == ScratchDir(pk) \o "/krb5.conf"
KeytabPath(pk) == ScratchDir(pk) \o "/keytab"

Directory == "<directory>"

\* Path.mkdir(parents=True, exist_ok=True)
Mkdir(fs, d) == Put(fs, d, Directory)

-----------------------------------------------------------------------------
(* RealmConfigScope: krb5_conf_path, set_krb5_conf, restore_krb5_conf *)

\* models.py 75-84: the path, and the file system after the write
krb5_conf_path(self, fs) ==
    IF self.krb5_conf = ""
    THEN [ret |-> None, files |-> fs]
    ELSE [ret |-> ConfPath(self.pk),
          files |-> Put(Mkdir(fs, ScratchDir(self.pk)), ConfPath(self.pk),
                        self.krb5_conf)]

\* models.py 86-93: what is returned as "previous", and the state after
set_krb5_conf(self, env, fs) ==
    LET p == krb5_conf_path(self, fs)
    IN  IF ~Truthy(p.ret)
        THEN [ret |-> None, environ |-> env, files |-> p.files]
        ELSE [ret |-> Get(env, KRB5_CONFIG, None),
              environ |-> Put(env, KRB5_CONFIG, p.ret),
              files |-> p.files]

\* an exit that clears KRB5_CONFIG whatever was saved
restore_krb5_conf_clears(previous, env) ==
    IF KRB5_CONFIG \in DOMAIN env
    THEN [exc |-> None, environ |-> Del(env, KRB5_CONFIG)]
    ELSE [exc |-> "KeyError", environ |-> env]

\* an exit that restores nothing
restore_krb5_conf_never(previous, env) == [exc |-> None, environ |-> env]

\* models.py 95-100: del os.environ[...] raises KeyError on a missing key
restore_krb5_conf(previous, env) ==
    IF Truthy(previous)
    THEN [exc |-> None, environ |-> Put(env, KRB5_CONFIG, previous)]
    ELSE IF KRB5_CONFIG \in DOMAIN env
         THEN [exc |-> None, environ |-> Del(env, KRB5_CONFIG)]
         ELSE [exc |-> "KeyError", environ |-> env]

-----------------------------------------------------------------------------
(* CredentialMaterial: _kadmin_init *)

\* what the realm answers to an authentication: a session, or kadmin.Error
InitOutcomes == {"ok", "Cannot contact any KDC"}

\* what the realm answers to principal_exists: a bool, or kadmin.Error
ExistsOutcomes == {"True", "False", "Communication failure"}

\* one kadmin.init_with_* call (fn) with its arguments and the realm's answer r
KadminCall(fn, self, password, keytab, ccache, r) ==
    [fn |-> fn, principal |-> self.sync_principal, password |-> password,
     keytab |-> keytab, ccache |-> ccache, realm |-> realm(self), outcome |-> r]

\* the call returns a new KAdmin object, or raises kadmin.Error(r)
KadminInitWith(call, fs, n) ==
    IF call.outcome = "ok"
    THEN [ret |-> n + 1, exc |-> None, msg |-> None, files |-> fs,
          nsessions |-> n + 1, calls |-> << call >>]
    ELSE [ret |-> NoSession, exc |-> "kadmin.Error", msg |-> call.outcome,
          files |-> fs, nsessions |-> n, calls |-> << call >>]

\* an exception raised by _kadmin_init itself, before any call to the realm
KadminInitRaise(exc, fs, n) ==
    [ret |-> NoSession, exc |-> exc, msg |-> exc, files |-> fs,
     nsessions |-> n, calls |-> << >>]

\* models.py 102-139; fs the file system, n the sessions created so far,
\* r the realm's answer if it is asked
_kadmin_init(self, fs, n, r) ==
    IF self.sync_principal = ""
    THEN [ret |-> NoSession, exc |-> None, msg |-> None, files |-> fs,
          nsessions |-> n, calls |-> << >>]
    ELSE IF self.sync_password # ""
    THEN KadminInitWith(
             KadminCall("init_with_password", self, self.sync_password,
                        << >>, None, r), fs, n)
    ELSE IF self.sync_keytab # << >>
    THEN IF ":" \notin RangeOf(self.sync_keytab)
         THEN LET fs1 == Mkdir(fs, ScratchDir(self.pk))
              IN  \* line 124 reads self.keytab, which is no attribute of the model
                  IF "keytab" \notin DOMAIN self
                  THEN KadminInitRaise("AttributeError", fs1, n)
                  ELSE IF ~B64Valid(self["keytab"])
                  THEN KadminInitRaise("binascii.Error", fs1, n)
                  ELSE KadminInitWith(
                           KadminCall("init_with_keytab", self, None,
                                      << "FILE", ":", KeytabPath(self.pk) >>,
                                      None, r),
                           Put(fs1, KeytabPath(self.pk),
                               b64decode(self["keytab"])), n)
         ELSE KadminInitWith(
                  KadminCall("init_with_keytab", self, None, self.sync_keytab,
                             None, r), fs, n)
    ELSE IF self.sync_ccache # ""
    THEN KadminInitWith(
             KadminCall("init_with_ccache", self, None, << >>,
                        self.sync_ccache, r), fs, n)
    ELSE [ret |-> NoSession, exc |-> None, msg |-> None, files |-> fs,
          nsessions |-> n, calls |-> << >>]

-----------------------------------------------------------------------------
(* AdminConnectionPool: connection *)

\* a key that does not tell the sources apart
CacheKeyShared(self) == "pk"

\* the key of a source in _kadmin_connections
CacheKey(self) == ToString(self.pk)

\* models.py 146-147: the second _kadmin_init of the call (again) is what is
\* stored; an exception of it leaves the cache as it was
ConnectionStore(self, cache, kadm, again) ==
    IF again.exc # None
    THEN [ret |-> NoSession, exc |-> again.exc, msg |-> again.msg,
          cache |-> cache, files |-> again.files,
          nsessions |-> again.nsessions, calls |-> kadm.calls \o again.calls]
    ELSE [ret |-> Get(Put(cache, CacheKey(self), again.ret), CacheKey(self),
                      NoSession),
          exc |-> None, msg |-> None,
          cache |-> Put(cache, CacheKey(self), again.ret),
          files |-> again.files, nsessions |-> again.nsessions,
          calls |-> kadm.calls \o again.calls]

\* a connection() that stores whatever _kadmin_init returned, None included
ConnectionMissStoresNone(self, cache, kadm, r2) ==
    IF kadm.exc # None
    THEN [ret |-> NoSession, exc |-> kadm.exc, msg |-> kadm.msg,
          cache |-> cache, files |-> kadm.files,
          nsessions |-> kadm.nsessions, calls |-> kadm.calls]
    ELSE IF kadm.ret # NoSession
    THEN ConnectionStore(self, cache, kadm,
                         _kadmin_init(self, kadm.files, kadm.nsessions, r2))
    ELSE [ret |-> NoSession, exc |-> None, msg |-> None,
          cache |-> Put(cache, CacheKey(self), NoSession),
          files |-> kadm.files, nsessions |-> kadm.nsessions,
          calls |-> kadm.calls]

\* models.py 144-147 with kadm the result of the first _kadmin_init
ConnectionMiss(self, cache, kadm, r2) ==
    IF kadm.exc # None
    THEN [ret |-> NoSession, exc |-> kadm.exc, msg |-> kadm.msg,
          cache |-> cache, files |-> kadm.files,
          nsessions |-> kadm.nsessions, calls |-> kadm.calls]
    ELSE IF kadm.ret # NoSession
    THEN ConnectionStore(self, cache, kadm,
                         _kadmin_init(self, kadm.files, kadm.nsessions, r2))
    ELSE [ret |-> Get(cache, CacheKey(self), NoSession), exc |-> None,
          msg |-> None, cache |-> cache, files |-> kadm.files,
          nsessions |-> kadm.nsessions, calls |-> kadm.calls]

\* a connection() that does not look into the cache and builds a session anew
connection_uncached(self, cache, fs, n, r1, r2) ==
    ConnectionMiss(self, cache, _kadmin_init(self, fs, n, r1), r2)

\* models.py 141-147; r1, r2 the realm's answers to the first and the second
\* _kadmin_init of the call
connection(self, cache, fs, n, r1, r2) ==
    IF CacheKey(self) \notin DOMAIN cache
    THEN ConnectionMiss(self, cache, _kadmin_init(self, fs, n, r1), r2)
    ELSE [ret |-> Get(cache, CacheKey(self), NoSession), exc |-> None,
          msg |-> None, cache |-> cache, files |-> fs, nsessions |-> n,
          calls |-> << >>]

-----------------------------------------------------------------------------
(* SourceSyncEngine: check_connection *)

\* kadm.principal_exists(self.sync_principal) and the realm's answer rx
ExistsCall(self, kadm, rx) ==
    [fn |-> "principal_exists", principal |-> self.sync_principal,
     password |-> None, keytab |-> << >>, ccache |-> None,
     realm |-> realm(self), outcome |-> rx]

\* models.py 167-175, the try block, with c the outcome of self.connection():
\* what leaves the body of the with statement (a return, a fall through to
\* line 175, or an exception that is no kadmin.Error)
CheckTry(self, c, rx) ==
    IF c.exc = "kadmin.Error"
    THEN [c EXCEPT !.exc = None, !.ret = [status |-> c.msg]]
    ELSE IF c.exc # None
    THEN [c EXCEPT !.ret = [status |-> "ok"]]
    ELSE IF c.ret = NoSession
    THEN [c EXCEPT !.ret = [status |-> "no connection"]]
    ELSE IF rx \in {"True", "False"}
    THEN [c EXCEPT !.ret = [status |-> "ok", principal_exists |-> (rx = "True")],
                   !.calls = c.calls \o << ExistsCall(self, c.ret, rx) >>]
    ELSE [c EXCEPT !.ret = [status |-> rx],
                   !.calls = c.calls \o << ExistsCall(self, c.ret, rx) >>]

\* models.py 193-194 after the body: __exit__ runs restore_krb5_conf and
\* returns None, so an exception of the body propagates unless __exit__
\* raises one itself
CheckExit(body, exited) ==
    [ret |-> body.ret,
     exc |-> IF exited.exc # None THEN exited.exc ELSE body.exc,
     msg |-> IF exited.exc # None THEN exited.exc ELSE body.msg,
     environ |-> exited.environ, files |-> body.files,
     cache |-> body.cache, nsessions |-> body.nsessions,
     calls |-> body.calls]

\* models.py 166-175 with entered the outcome of __enter__ (set_krb5_conf,
\* whose result __enter__ keeps as _previous)
CheckEntered(self, entered, cache, n, r1, r2, rx) ==
    CheckExit(CheckTry(self,
                       connection(self, cache, entered.files, n, r1, r2), rx),
              restore_krb5_conf(entered.ret, entered.environ))

\* models.py 166-175: the with statement
CheckScoped(self, env, fs, cache, n, r1, r2, rx) ==
    CheckEntered(self, set_krb5_conf(self, env, fs), cache, n, r1, r2, rx)

\* the health check without the early return of line 165
CheckWithoutEarlyReturn(self, env, fs, cache, n, r1, r2, rx) ==
    CheckScoped(self, env, fs, cache, n, r1, r2, rx)

\* models.py 161-175: the report returned or the exception raised, and the
\* state of the process after the call
check_connection(self, env, fs, cache, n, r1, r2, rx) ==
    IF ~self.sync_users
    THEN [ret |-> [status |-> "ok"], exc |-> None, msg |-> None,
          environ |-> env, files |-> fs, cache |-> cache, nsessions |-> n,
          calls |-> << >>]
    ELSE CheckScoped(self, env, fs, cache, n, r1, r2, rx)

-----------------------------------------------------------------------------
(* One process, one thread: calls of _kadmin_init, connection and          *)
(* check_connection on sources read from the database.  A call is one      *)
(* step; its input, the state it found and its outcome are kept in last    *)
(* until the caller has taken the result (Return).                         *)

\* values KRB5_CONFIG may have when the process starts: unset, empty, a path
InitialEnvirons ==
    { EmptyDict, [k \in {KRB5_CONFIG} |-> ""],
      [k \in {KRB5_CONFIG} |-> "/etc/krb5.conf"] }

\* The realm's answers to the requests of one call, in the order the call
\* makes them.  A call stops at the first kadmin.Error, so the answers that
\* would follow a failed one are never read and are not varied.
RealmAnswers ==
    { a \in [init1 : InitOutcomes, init2 : InitOutcomes,
             exists : ExistsOutcomes] :
        /\ a.init1 # "ok" => a.init2 = a.init1
        /\ a.init2 # "ok" => a.exists \notin {"True", "False"} }

PoolAnswers == { << a.init1, a.init2 >> : a \in RealmAnswers }

NoSource ==
    [pk |-> 0, krb5_conf |-> "", sync_users |-> FALSE, sync_principal |-> "",
     sync_password |-> "", sync_keytab |-> << >>, sync_ccache |-> ""]

NoReport == [status |-> None]

Snapshot ==
    [environ |-> environ, files |-> files, cache |-> kadmin_connections,
     nsessions |-> nsessions]

NoCall ==
    [op |-> "idle", self |-> NoSource, exc |-> None, msg |-> None,
     session |-> NoSession, report |-> NoReport, calls |-> << >>,
     pre |-> [environ |-> EmptyDict, files |-> EmptyDict, cache |-> EmptyDict,
              nsessions |-> 0]]

NoThreads == << >>

\* the variables of the other specifications, at rest
ScopeIdle == ctx = NoThreads /\ tpc = NoThreads /\ nscopes = 0
LockIdle ==
    /\ now = 0
    /\ redis = EmptyDict
    /\ wpc = NoThreads
    /\ held = NoThreads
    /\ task_timeout_hours = 1

ProcInit ==
    /\ environ \in InitialEnvirons
    /\ files = EmptyDict
    /\ kadmin_connections = EmptyDict
    /\ nsessions = 0
    /\ returned = [pk \in Pks |-> {}]
    /\ last = NoCall

Init == ProcInit /\ ScopeIdle /\ LockIdle

\* a call of self._kadmin_init()
KadminInit(self, r) ==
    LET k == _kadmin_init(self, files, nsessions, r)
    IN  /\ last.op = "idle"
        /\ k.nsessions <= MaxSessions
        /\ files' = k.files
        /\ nsessions' = k.nsessions
        /\ last' = [op |-> "_kadmin_init", self |-> self, exc |-> k.exc,
                    msg |-> k.msg, session |-> k.ret, report |-> NoReport,
                    calls |-> k.calls, pre |-> Snapshot]
        /\ UNCHANGED << environ, kadmin_connections, returned >>

\* a call of self.connection(); returned collects, per source identity, the
\* sessions that connection() has handed to its callers
Connection(self, r1, r2) ==
    LET c == connection(self, kadmin_connections, files, nsessions, r1, r2)
    IN  /\ last.op = "idle"
        /\ c.nsessions <= MaxSessions
        /\ files' = c.files
        /\ nsessions' = c.nsessions
        /\ kadmin_connections' = c.cache
        /\ returned' =
               IF c.exc = None /\ c.ret # NoSession
               THEN [returned EXCEPT ![self.pk] = @ \cup {c.ret}]
               ELSE returned
        /\ last' = [op |-> "connection", self |-> self, exc |-> c.exc,
                    msg |-> c.msg, session |-> c.ret, report |-> NoReport,
                    calls |-> c.calls, pre |-> Snapshot]
        /\ UNCHANGED environ

\* a call of self.check_connection()
CheckConnection(self, r1, r2, rx) ==
    LET h == check_connection(self, environ, files, kadmin_connections,
                              nsessions, r1, r2, rx)
    IN  /\ last.op = "idle"
        /\ h.nsessions <= MaxSessions
        /\ environ' = h.environ
        /\ files' = h.files
        /\ nsessions' = h.nsessions
        /\ kadmin_connections' = h.cache
        /\ last' = [op |-> "check_connection", self |-> self, exc |-> h.exc,
                    msg |-> h.msg, session |-> NoSession,
                    report |-> IF h.exc = None THEN h.ret ELSE NoReport,
                    calls |-> h.calls, pre |-> Snapshot]
        /\ UNCHANGED returned

\* the caller has the result (or the exception) of the call
Return ==
    /\ last.op # "idle"
    /\ last' = NoCall
    /\ UNCHANGED << environ, files, kadmin_connections, nsessions, returned >>

\* the health check, as the admin API runs it
Next ==
    \/ \E self \in Sources, a \in RealmAnswers :
           CheckConnection(self, a.init1, a.init2, a.exists)
               /\ UNCHANGED << scopeVars, lockVars >>
    \/ Return /\ UNCHANGED << scopeVars, lockVars >>

Spec == Init /\ [][Next]_vars

\* the connection pool, as the sync tasks use it
NextPool ==
    \/ \E self \in Sources, a \in PoolAnswers :
           Connection(self, a[1], a[2]) /\ UNCHANGED << scopeVars, lockVars >>
    \/ Return /\ UNCHANGED << scopeVars, lockVars >>

SpecPool == Init /\ [][NextPool]_vars

\* the rows of sources that are synced, with a principal, a password and a
\* keytab that are edited between the calls
ProcessSources == { s \in Sources : s.sync_users /\ s.sync_ccache = "" }

\* the process over its lifetime: sync tasks and health checks, each on the
\* row of the source as it is in the database at that time (the credential
\* fields of a pk may differ from call to call)
NextProcess ==
    \/ \E self \in ProcessSources, a \in PoolAnswers :
           Connection(self, a[1], a[2]) /\ UNCHANGED << scopeVars, lockVars >>
    \/ \E self \in ProcessSources, a \in RealmAnswers :
           CheckConnection(self, a.init1, a.init2, a.exists)
               /\ UNCHANGED << scopeVars, lockVars >>
    \/ Return /\ UNCHANGED << scopeVars, lockVars >>

SpecProcess == Init /\ [][NextProcess]_vars

\* the credential resolution alone
NextInit ==
    \/ \E self \in Sources, r \in InitOutcomes :
           KadminInit(self, r) /\ UNCHANGED << scopeVars, lockVars >>
    \/ Return /\ UNCHANGED << scopeVars, lockVars >>

SpecInit == Init /\ [][NextInit]_vars

-----------------------------------------------------------------------------
(* Threads of one process running `with Krb5ConfContext(source):` blocks,  *)
(* step by step: every read or write of os.environ and of the scratch file *)
(* is a step of its own, and blocks may be nested.                         *)

Threads == {1, 2}

\* with blocks entered in one behaviour (nested, overlapping or in a row)
MaxScopes == 2

\* the scope reads pk and krb5_conf only: one source per value of the two
ScopeSources ==
    { s \in Sources :
        /\ s.sync_users
        /\ s.sync_principal = "" /\ s.sync_password = ""
        /\ s.sync_keytab = << >> /\ s.sync_ccache = "" }

Top(t) == ctx[t][Len(ctx[t])]
SetTop(t, c) == [ctx EXCEPT ![t][Len(ctx[t])] = c]
OpenScopes == {t \in Threads : ctx[t] # << >>}

ScopeInit ==
    /\ environ \in InitialEnvirons
    /\ files = EmptyDict
    /\ kadmin_connections = EmptyDict
    /\ nsessions = 0
    /\ returned = [pk \in Pks |-> {}]
    /\ last = NoCall
    /\ ctx = [t \in Threads |-> << >>]
    /\ tpc = [t \in Threads |-> "idle"]
    /\ nscopes = 0

\* what the with blocks that have been left so far did, kept in last: the
\* environ before the first block was entered (origin), whether the body of
\* a block found KRB5_CONFIG at the path of another source (foreign), whether
\* blocks overlapped or were nested (overlapped), whether all blocks were of
\* sources with configuration text (plain), the threads that ran them
NoHistory ==
    [origin |-> EmptyDict, foreign |-> FALSE, overlapped |-> FALSE,
     plain |-> TRUE, threads |-> {}]

History == IF last.op = "with" THEN last.history ELSE NoHistory

\* the environ before the first with block of the behaviour was entered
Origin ==
    IF nscopes = 0 THEN environ
    ELSE IF OpenScopes # {}
    THEN ctx[CHOOSE u \in OpenScopes : TRUE][1].origin
    ELSE History.origin

\* the body of the block c found KRB5_CONFIG at the path of another source
Foreign(c) ==
    /\ c.source.krb5_conf # ""
    /\ \E q \in Pks \ {c.source.pk} : c.seen = ConfPath(q)

\* models.py 186-188 and 190: Krb5ConfContext(source) is built and __enter__
\* starts.  alone records that no other scope is open while this one is; pre
\* is the state of the process the scope found.
ScopeEnter(t, self) ==
    /\ tpc[t] \in {"idle", "body"}
    /\ nscopes < MaxScopes
    /\ nscopes' = nscopes + 1
    /\ ctx' = [u \in Threads |->
                 LET marked == [i \in DOMAIN ctx[u] |->
                                   [ctx[u][i] EXCEPT !.alone = FALSE]]
                 IN  IF u = t
                     THEN Append(marked,
                                 [source |-> self, previous |-> None,
                                  path |-> None, got |-> None,
                                  body |-> "normal", seen |-> None,
                                  origin |-> Origin,
                                  alone |-> OpenScopes = {},
                                  pre |-> [environ |-> environ,
                                           files |-> files]])
                     ELSE marked]
    /\ tpc' = [tpc EXCEPT ![t] = "path"]
    /\ UNCHANGED << environ, files, last >>

\* models.py 88-90: path = self.krb5_conf_path(); without a path
\* set_krb5_conf returns None, which __enter__ keeps as _previous
ScopeConfPath(t) ==
    /\ tpc[t] = "path"
    /\ LET p == krb5_conf_path(Top(t).source, files)
       IN  /\ files' = p.files
           /\ ctx' = SetTop(t, [Top(t) EXCEPT !.path = p.ret])
           /\ tpc' = [tpc EXCEPT ![t] = IF Truthy(p.ret) THEN "get" ELSE "body"]
    /\ UNCHANGED << environ, last, nscopes >>

\* the read of KRB5_CONFIG placed after the write of line 92: it reads the path
ScopeEnvironGetLate(t) ==
    /\ tpc[t] = "get"
    /\ ctx' = SetTop(t, [Top(t) EXCEPT !.got = Top(t).path])
    /\ tpc' = [tpc EXCEPT ![t] = "set"]
    /\ UNCHANGED << environ, files, last, nscopes >>

\* models.py 91: previous = os.environ.get("KRB5_CONFIG", None)
ScopeEnvironGet(t) ==
    /\ tpc[t] = "get"
    /\ ctx' = SetTop(t, [Top(t) EXCEPT !.got = Get(environ, KRB5_CONFIG, None)])
    /\ tpc' = [tpc EXCEPT ![t] = "set"]
    /\ UNCHANGED << environ, files, last, nscopes >>

\* models.py 92-93 and 191: os.environ["KRB5_CONFIG"] = path; return
\* previous, kept by __enter__ as _previous
ScopeEnvironSet(t) ==
    /\ tpc[t] = "set"
    /\ environ' = Put(environ, KRB5_CONFIG, Top(t).path)
    /\ ctx' = SetTop(t, [Top(t) EXCEPT !.previous = Top(t).got])
    /\ tpc' = [tpc EXCEPT ![t] = "body"]
    /\ UNCHANGED << files, last, nscopes >>

\* the body of the with block ends, normally or with an exception; seen is
\* the KRB5_CONFIG the body has at its end
ScopeBodyEnd(t, outcome) ==
    /\ tpc[t] = "body"
    /\ ctx' = SetTop(t, [Top(t) EXCEPT !.body = outcome,
                                        !.seen = Get(environ, KRB5_CONFIG, None)])
    /\ tpc' = [tpc EXCEPT ![t] = "exit"]
    /\ UNCHANGED << environ, files, last, nscopes >>

\* models.py 193-194: __exit__ runs restore_krb5_conf(self._previous) and
\* returns None.  What leaves the with statement is the KeyError of
\* __exit__, else the exception of the body, else nothing; an exception
\* that leaves a nested block ends the body of the enclosing one.
ScopeExit(t) ==
    /\ tpc[t] = "exit"
    /\ LET c == Top(t)
           r == restore_krb5_conf(c.previous, environ)
           exc == IF r.exc # None THEN r.exc
                  ELSE IF c.body = "raise" THEN "BodyError" ELSE None
           rest == SubSeq(ctx[t], 1, Len(ctx[t]) - 1)
       IN  /\ environ' = r.environ
           /\ last' = [op |-> "with", self |-> c.source, body |-> c.body,
                       exc |-> exc, alone |-> c.alone, pre |-> c.pre,
                       post |-> [environ |-> r.environ, files |-> files],
                       seen |-> c.seen,
                       history |->
                           [origin |-> c.origin,
                            foreign |-> History.foreign \/ Foreign(c),
                            overlapped |-> History.overlapped \/ ~c.alone,
                            plain |-> History.plain
                                          /\ c.source.krb5_conf # "",
                            threads |-> History.threads \cup {t}]]
           /\ ctx' = [ctx EXCEPT ![t] =
                         IF rest # << >> /\ exc # None
                         THEN [rest EXCEPT ![Len(rest)].body = "raise"]
                         ELSE rest]
           /\ tpc' = [tpc EXCEPT ![t] =
                         IF rest = << >> THEN "idle"
                         ELSE IF exc # None THEN "exit" ELSE "body"]
    /\ UNCHANGED << files, nscopes >>

NextScope ==
    \/ \E t \in Threads, self \in ScopeSources :
           ScopeEnter(t, self)
               /\ UNCHANGED << kadmin_connections, nsessions, returned, lockVars >>
    \/ \E t \in Threads :
           ScopeConfPath(t)
               /\ UNCHANGED << kadmin_connections, nsessions, returned, lockVars >>
    \/ \E t \in Threads :
           ScopeEnvironGet(t)
               /\ UNCHANGED << kadmin_connections, nsessions, returned, lockVars >>
    \/ \E t \in Threads :
           ScopeEnvironSet(t)
               /\ UNCHANGED << kadmin_connections, nsessions, returned, lockVars >>
    \/ \E t \in Threads, outcome \in {"normal", "raise"} :
           ScopeBodyEnd(t, outcome)
               /\ UNCHANGED << kadmin_connections, nsessions, returned, lockVars >>
    \/ \E t \in Threads :
           ScopeExit(t)
               /\ UNCHANGED << kadmin_connections, nsessions, returned, lockVars >>

InitScope == ScopeInit /\ LockIdle

SpecScope == InitScope /\ [][NextScope]_vars

-----------------------------------------------------------------------------
(* SyncCoordinator: workers of the deployment that run sync passes under   *)
(* the lock sync_lock builds.  The lock is redis-py's Lock: acquire is     *)
(* SET name token NX PX timeout, the key is gone once the timeout has      *)
(* passed, release deletes the key only if it still holds the token.       *)

Workers == {1, 2, 3}

\* connection.schema_name of the tenant, and Source.slug
Schemas == {"public", "public-eu"}
Slugs == {"krb", "eu-krb"}
LockSources == [schema_name : Schemas, slug : Slugs]

Hour == 60 * 60

\* the lock with the timeout of one hour per configured hour
sync_lock_without_leeway(schema_name, slug, hours) ==
    [name |-> "goauthentik.io/sources/kerberos/sync/"
                 \o schema_name \o "-" \o slug,
     timeout |-> 60 * 60 * hours]

\* the lock built without a timeout: its key outlives every behaviour
sync_lock_without_timeout(schema_name, slug, hours) ==
    [name |-> "goauthentik.io/sources/kerberos/sync/"
                 \o schema_name \o "-" \o slug,
     timeout |-> (60 * 60 * (MaxHours + 1)) * 3]

\* the lock with a timeout counted in minutes instead of seconds
sync_lock_in_minutes(schema_name, slug, hours) ==
    [name |-> "goauthentik.io/sources/kerberos/sync/"
                 \o schema_name \o "-" \o slug,
     timeout |-> (60 * hours) * 3]

\* models.py 149-159: the Lock object, by its name and its timeout (seconds)
sync_lock(schema_name, slug, hours) ==
    [name |-> "goauthentik.io/sources/kerberos/sync/"
                 \o schema_name \o "-" \o slug,
     timeout |-> (60 * 60 * hours) * 3]

\* the redis key of the lock exists: it was set, and neither deleted nor
\* expired
Live(name) == name \in DOMAIN redis

\* the keys redis still has at time t: those that expire later
Unexpired(keys, t) ==
    [name \in {k \in DOMAIN keys : t < keys[k].expires} |-> keys[name]]

NoLock ==
    [source |-> [schema_name |-> None, slug |-> None], name |-> None,
     timeout |-> 0, acquired |-> 0]

InitLock ==
    /\ environ = EmptyDict
    /\ files = EmptyDict
    /\ kadmin_connections = EmptyDict
    /\ nsessions = 0
    /\ returned = [pk \in Pks |-> {}]
    /\ last = NoCall
    /\ ctx = NoThreads
    /\ tpc = NoThreads
    /\ nscopes = 0
    /\ now = 0
    /\ redis = EmptyDict
    /\ wpc = [w \in Workers |-> "idle"]
    /\ held = [w \in Workers |-> NoLock]
    /\ task_timeout_hours \in 1..MaxTaskHours

\* a sync task starts for a source and reads source.sync_lock
SyncStart(w, src) ==
    /\ wpc[w] = "idle"
    /\ LET lock == sync_lock(src.schema_name, src.slug, task_timeout_hours)
       IN  held' = [held EXCEPT ![w] =
                       [source |-> src, name |-> lock.name,
                        timeout |-> lock.timeout, acquired |-> 0]]
    /\ wpc' = [wpc EXCEPT ![w] = "waiting"]
    /\ UNCHANGED << now, redis, task_timeout_hours >>

\* the lock is free (never taken, released or expired): the worker takes it
\* and is inside its sync pass
SyncAcquire(w) ==
    /\ wpc[w] = "waiting"
    /\ ~Live(held[w].name)
    /\ redis' = Put(redis, held[w].name,
                    [token |-> w, expires |-> now + held[w].timeout])
    /\ held' = [held EXCEPT ![w].acquired = now]
    /\ wpc' = [wpc EXCEPT ![w] = "running"]
    /\ UNCHANGED << now, task_timeout_hours >>

\* the lock is taken: a worker that does not block gives the pass up
SyncFailFast(w) ==
    /\ wpc[w] = "waiting"
    /\ Live(held[w].name)
    /\ wpc' = [wpc EXCEPT ![w] = "idle"]
    /\ held' = [held EXCEPT ![w] = NoLock]
    /\ UNCHANGED << now, redis, task_timeout_hours >>

\* the pass is complete and the lock is released; the key is deleted only
\* if it is still this worker's
SyncRelease(w) ==
    /\ wpc[w] = "running"
    /\ redis' = IF Live(held[w].name) /\ redis[held[w].name].token = w
                THEN Del(redis, held[w].name)
                ELSE redis
    /\ wpc' = [wpc EXCEPT ![w] = "idle"]
    /\ held' = [held EXCEPT ![w] = NoLock]
    /\ UNCHANGED << now, task_timeout_hours >>

\* the process of a worker dies inside its pass; nothing releases the lock
SyncCrash(w) ==
    /\ wpc[w] = "running"
    /\ wpc' = [wpc EXCEPT ![w] = "dead"]
    /\ UNCHANGED << now, redis, held, task_timeout_hours >>

\* an hour passes; redis drops the keys whose timeout has passed
Tick ==
    /\ now < MaxHours * Hour
    /\ now' = now + Hour
    /\ redis' = Unexpired(redis, now + Hour)
    /\ UNCHANGED << wpc, held, task_timeout_hours >>

NextLock ==
    \/ \E w \in Workers, src \in LockSources :
           SyncStart(w, src) /\ UNCHANGED << procVars, scopeVars >>
    \/ \E w \in Workers : SyncAcquire(w) /\ UNCHANGED << procVars, scopeVars >>
    \/ \E w \in Workers : SyncFailFast(w) /\ UNCHANGED << procVars, scopeVars >>
    \/ \E w \in Workers : SyncRelease(w) /\ UNCHANGED << procVars, scopeVars >>
    \/ \E w \in Workers : SyncCrash(w) /\ UNCHANGED << procVars, scopeVars >>
    \/ Tick /\ UNCHANGED << procVars, scopeVars >>

SpecLock == InitLock /\ [][NextLock]_vars

\* The liveness of the lock is about one holder that dies and one attempt
\* that is retried: two of the workers run passes.
LiveWorkers == {1, 2}

NextLockLive ==
    \/ \E w \in LiveWorkers, src \in LockSources :
           SyncStart(w, src) /\ UNCHANGED << procVars, scopeVars >>
    \/ \E w \in LiveWorkers :
           SyncAcquire(w) /\ UNCHANGED << procVars, scopeVars >>
    \/ \E w \in LiveWorkers :
           SyncFailFast(w) /\ UNCHANGED << procVars, scopeVars >>
    \/ \E w \in LiveWorkers :
           SyncRelease(w) /\ UNCHANGED << procVars, scopeVars >>
    \/ \E w \in LiveWorkers :
           SyncCrash(w) /\ UNCHANGED << procVars, scopeVars >>
    \/ Tick /\ UNCHANGED << procVars, scopeVars >>

\* the scheduling the claim on liveness assumes: time advances, and a worker
\* that waits for a lock that is free takes it
FairLock ==
    /\ WF_vars(Tick /\ UNCHANGED << procVars, scopeVars >>)
    /\ \A w \in LiveWorkers :
           WF_vars(SyncAcquire(w) /\ UNCHANGED << procVars, scopeVars >>)

SpecLockLive == InitLock /\ [][NextLockLive]_vars /\ FairLock

-----------------------------------------------------------------------------
(* Claims about the sync lock (SpecLock) *)

InPass(w) == wpc[w] = "running"

\* two workers are inside a sync pass of the same source at the same time
Overlap(v, w) ==
    v # w /\ InPass(v) /\ InPass(w) /\ held[v].source = held[w].source

C11_LockTimeout ==
    \A w \in Workers :
        held[w].name # None =>
            /\ held[w].timeout = 3 * task_timeout_hours * 3600
            /\ task_timeout_hours = 2 => held[w].timeout = 21600
            /\ ( /\ InPass(w)
                 /\ Live(held[w].name)
                 /\ redis[held[w].name].token = w )
               => redis[held[w].name].expires
                      = held[w].acquired + 3 * task_timeout_hours * 3600

\* C11's case: with task_timeout_hours = 2 a worker holds the lock it built,
\* which lives for 21600 seconds
C11_Witness ==
    \E w \in Workers :
        /\ task_timeout_hours = 2
        /\ InPass(w)
        /\ Live(held[w].name)
        /\ redis[held[w].name].token = w
        /\ redis[held[w].name].expires - held[w].acquired = 21600

\* worker w has built the lock of its source
Built(w) == held[w].name # None

\* C17: the name of the lock is a function of (schema_name, slug) that is
\* one-to-one: the locks two workers build have the same name exactly if the
\* workers sync the same source of the same tenant, also for schema names
\* and slugs that contain '-'.
C17_LockNameOneToOne ==
    \A v, w \in Workers :
        (Built(v) /\ Built(w))
        => /\ held[v].name
                  = sync_lock(held[v].source.schema_name, held[v].source.slug,
                              task_timeout_hours).name
           /\ held[v].source = held[w].source => held[v].name = held[w].name
           /\ held[v].name = held[w].name => held[v].source = held[w].source

\* the worker died inside its pass
Crashed(v) == wpc[v] = "dead"

\* the redis key of the lock worker v acquired is still the one v set
HoldsKey(v) == Live(held[v].name) /\ redis[held[v].name].token = v

\* the time the lock worker v acquired expires, by C11's timeout
Expiry(v) == held[v].acquired + 3 * task_timeout_hours * 3600

\* a sync attempt for the source of worker v waits for the lock
Retried(v) ==
    \E w \in Workers \ {v} :
        wpc[w] = "waiting" /\ held[w].source = held[v].source

\* a later attempt for the source of worker v has acquired the lock and is
\* inside its pass
Reacquired(v) ==
    \E w \in Workers \ {v} :
        /\ InPass(w)
        /\ held[w].source = held[v].source
        /\ Expiry(v) <= held[w].acquired

\* C12: the lock of a worker that died inside its pass stays taken until its
\* timeout has passed and is released at that time without anyone's help;
\* and, time advancing and attempts for the source being retried for ever,
\* a later attempt then acquires the lock and runs its pass.  (The clock of
\* a behaviour stops at MaxHours, so the crash is one whose lock expires
\* before that.)
C12_CrashedLockExpires ==
    /\ [](\A v \in Workers :
             Crashed(v) => (HoldsKey(v) <=> now < Expiry(v)))
    /\ \A v \in Workers :
           (Crashed(v) /\ HoldsKey(v) /\ Expiry(v) <= MaxHours * Hour)
               ~> ~HoldsKey(v)
    /\ \A v \in Workers :
           ([]<>Retried(v))
               => ((Crashed(v) /\ HoldsKey(v) /\ Expiry(v) <= MaxHours * Hour)
                       ~> Reacquired(v))

\* C12's case: the lock of a dead worker has expired and a later attempt for
\* the same source is inside its pass under that lock
C12_Witness ==
    \E v \in Workers :
        /\ Crashed(v)
        /\ ~HoldsKey(v)
        /\ \E w \in Workers \ {v} :
               /\ InPass(w)
               /\ held[w].source = held[v].source
               /\ HoldsKey(w)
               /\ Expiry(v) <= held[w].acquired

-----------------------------------------------------------------------------
(* Claims about the configuration scope (SpecScope) *)

\* a with block has been left that no other block overlapped or nested in
LeftAlone == last.op = "with" /\ last.alone

\* C2: for a source with configuration text, entering and leaving the scope
\* leaves KRB5_CONFIG exactly as it was before entry (the same value, or
\* unset), whether the body ends normally or raises.
C2_ScopeRestoresEnviron ==
    (LeftAlone /\ last.self.krb5_conf # "")
    => last.post.environ = last.pre.environ

\* C3: for a source without configuration text, entering and leaving the
\* scope changes nothing: KRB5_CONFIG is as before, set or unset, no file is
\* written and the exit raises no error.
C3_ScopeWithoutConfIsNoOp ==
    (LeftAlone /\ last.self.krb5_conf = "")
    => /\ last.post.environ = last.pre.environ
       /\ last.post.files = last.pre.files
       /\ last.exc # "KeyError"

\* the value of KRB5_CONFIG in env, None when it is unset
Krb5Config(env) == Get(env, KRB5_CONFIG, None)

\* thread t is inside a with block of a source with configuration text that
\* no other block overlaps or is nested in
InSingleScope(t) ==
    IF ctx[t] = << >>
    THEN FALSE
    ELSE Top(t).alone /\ Top(t).source.krb5_conf # ""

\* the scratch file of the source holds its configuration text
ConfWritten(self) ==
    /\ ConfPath(self.pk) \in DOMAIN files
    /\ files[ConfPath(self.pk)] = self.krb5_conf

\* C13: entering the scope of a source with configuration text first writes
\* the text to the source's path, then reads KRB5_CONFIG as previous, then
\* sets KRB5_CONFIG to the path; so in the body of a scope that nothing
\* overlaps KRB5_CONFIG is the source's path, the file there holds the
\* source's text, and previous is the value from before entry.
C13_EntryOrdering ==
    \A t \in Threads :
        InSingleScope(t) =>
            LET c == Top(t)
                before == Krb5Config(c.pre.environ)
            IN  /\ tpc[t] = "path" => environ = c.pre.environ
                /\ tpc[t] \in {"get", "set"}
                       => ConfWritten(c.source) /\ environ = c.pre.environ
                /\ tpc[t] = "set" => c.got = before
                /\ tpc[t] \in {"body", "exit"}
                       => /\ Krb5Config(environ) = ConfPath(c.source.pk)
                          /\ ConfWritten(c.source)
                          /\ c.previous = before
                          /\ before # ConfPath(c.source.pk)
                                 => c.previous # ConfPath(c.source.pk)

\* C13's case: a thread is in the body of a single scope of a source with
\* configuration text, entered while KRB5_CONFIG had a value
C13_Witness ==
    \E t \in Threads :
        /\ InSingleScope(t)
        /\ tpc[t] = "body"
        /\ Krb5Config(Top(t).pre.environ) = "/etc/krb5.conf"
        /\ Top(t).previous = "/etc/krb5.conf"
        /\ Krb5Config(environ) = ConfPath(Top(t).source.pk)

\* every with block of the behaviour has been left
AllLeft == OpenScopes = {} /\ last.op = "with"

\* C14: scopes of different sources with configuration text that overlap in
\* two threads race: a body finds KRB5_CONFIG at the other source's path, and
\* after both scopes are left KRB5_CONFIG is not what it was before the first
\* was entered (C14_Witness is such a behaviour).  The race needs the
\* overlap: a body of a scope that nothing overlaps never finds the other
\* source's path, and scopes of sources with configuration text that never
\* overlap leave a KRB5_CONFIG that had a value as it was.
C14_RaceNeedsOverlap ==
    /\ \A t \in Threads :
           ( /\ InSingleScope(t)
             /\ tpc[t] = "body" )
           => ~(\E q \in Pks \ {Top(t).source.pk} :
                    Krb5Config(environ) = ConfPath(q))
    /\ ( /\ AllLeft
         /\ History.plain
         /\ Truthy(Krb5Config(History.origin))
         /\ environ # History.origin )
       => History.overlapped

\* C14's case: two scopes of sources with configuration text have been run
\* and left; the body of one found KRB5_CONFIG at the path of the other
\* source, and KRB5_CONFIG, "/etc/krb5.conf" before the first was entered,
\* is now the path of a source
C14_Witness ==
    /\ AllLeft
    /\ nscopes = 2
    /\ History.plain
    /\ History.overlapped
    /\ History.foreign
    /\ Krb5Config(History.origin) = "/etc/krb5.conf"
    /\ \E q \in Pks : Krb5Config(environ) = ConfPath(q)

\* thread t is the only one that has run with blocks, all of them of sources
\* with configuration text
NestsAlone(t) ==
    /\ \A u \in Threads \ {t} : ctx[u] = << >>
    /\ History.threads \subseteq {t}
    /\ History.plain
    /\ \A i \in DOMAIN ctx[t] : ctx[t][i].source.krb5_conf # ""

\* what KRB5_CONFIG is below the i-th open block of thread t: the path of
\* that block's source, and the value before the first block for i = 0
Below(t, i) ==
    IF i = 0 THEN Krb5Config(Origin) ELSE ConfPath(ctx[t][i].source.pk)

\* C19: scopes of sources with configuration text that are nested in one
\* thread, entered while KRB5_CONFIG has a non-empty value v, restore in LIFO
\* order: in the body of the inner scope KRB5_CONFIG is the inner source's
\* path, after the inner scope is left it is the outer source's path again,
\* and after the outer scope is left it is v.
C19_NestedScopesRestoreLIFO ==
    \A t \in Threads :
        (NestsAlone(t) /\ Truthy(Krb5Config(Origin)))
        => /\ (ctx[t] = << >> /\ nscopes > 0) => environ = Origin
           /\ (ctx[t] # << >> /\ tpc[t] \in {"body", "exit"})
                  => /\ Krb5Config(environ) = Below(t, Len(ctx[t]))
                     /\ \A i \in DOMAIN ctx[t] :
                            ctx[t][i].previous = Below(t, i - 1)
           /\ (ctx[t] # << >> /\ tpc[t] \in {"path", "get", "set"})
                  => Krb5Config(environ) = Below(t, Len(ctx[t]) - 1)

\* C19's case: with KRB5_CONFIG = "/etc/krb5.conf" at the start, a thread
\* entered the scope of A and inside it the scope of another source B, whose
\* body had KRB5_CONFIG at B's path; B's scope has been left and the thread
\* is back in A's body with KRB5_CONFIG at A's path
C19_Witness ==
    \E t \in Threads :
        /\ NestsAlone(t)
        /\ Krb5Config(Origin) = "/etc/krb5.conf"
        /\ Len(ctx[t]) = 1
        /\ tpc[t] = "body"
        /\ last.op = "with"
        /\ last.self.pk # ctx[t][1].source.pk
        /\ last.seen = ConfPath(last.self.pk)
        /\ last.pre.environ = [k \in {KRB5_CONFIG} |->
                                   ConfPath(ctx[t][1].source.pk)]
        /\ Krb5Config(environ) = ConfPath(ctx[t][1].source.pk)
        /\ ctx[t][1].previous = "/etc/krb5.conf"

-----------------------------------------------------------------------------
(* Claims about the health check (Spec) *)

Checked == last.op = "check_connection"

\* C4: check_connection() always ends by returning a status report and never
\* by raising, whatever the source's configuration, the prior KRB5_CONFIG,
\* the connection cache and the realm's answers.
C4_AlwaysReturnsReport ==
    Checked => last.exc = None /\ "status" \in DOMAIN last.report

\* C9: the health check of a source with sync_users true and no principal
\* (and no session cached for it) returns {status: "no connection"}, for
\* every krb5_conf and every prior KRB5_CONFIG.
C9_NoPrincipalNoConnection ==
    ( /\ Checked
      /\ last.self.sync_users
      /\ last.self.sync_principal = ""
      /\ CacheKey(last.self) \notin DOMAIN last.pre.cache )
    => /\ last.exc = None
       /\ last.report = [status |-> "no connection"]

\* C10: the health check of a source with sync_users false returns exactly
\* {status: "ok"}, asks the realm nothing, and leaves KRB5_CONFIG, the scratch
\* files and the connection cache as they were.
C10_SyncDisabledIsNoOp ==
    (Checked /\ ~last.self.sync_users)
    => /\ last.exc = None
       /\ last.report = [status |-> "ok"]
       /\ last.calls = << >>
       /\ environ = last.pre.environ
       /\ files = last.pre.files
       /\ kadmin_connections = last.pre.cache
       /\ nsessions = last.pre.nsessions

\* C10's case: a disabled source with configuration text and credentials is
\* checked while KRB5_CONFIG is set and another source has a cached session
C10_Witness ==
    /\ Checked
    /\ ~last.self.sync_users
    /\ last.self.krb5_conf # ""
    /\ last.self.sync_principal # ""
    /\ last.self.sync_password # ""
    /\ KRB5_CONFIG \in DOMAIN last.pre.environ
    /\ CacheKey(last.self) \notin DOMAIN last.pre.cache
    /\ last.pre.cache # EmptyDict

\* the answer of the realm to the last request the health check made
LastAnswer == last.calls[Len(last.calls)].outcome

\* C16: a health check of a source with sync_users true whose connection or
\* principal_exists query fails with kadmin.Error returns the report
\* {status: <the error's message>} without a principal_exists field; one
\* whose connection and query succeed returns {status: "ok",
\* principal_exists: <the answer of the query>}.
C16_RemoteErrorsFolded ==
    (Checked /\ last.self.sync_users /\ last.calls # << >>)
    => /\ last.exc = None
       /\ IF LastAnswer \in {"True", "False"}
          THEN last.report
                   = [status |-> "ok",
                      principal_exists |-> (LastAnswer = "True")]
          ELSE LastAnswer # "ok" /\ last.report = [status |-> LastAnswer]

-----------------------------------------------------------------------------
(* Claims about the connection pool (SpecPool) *)

Connected == last.op = "connection"

\* C5: all sessions connection() ever returned for one source identity are
\* one and the same object, and no session is returned for two identities.
C5_PoolIdentity ==
    /\ \A p \in Pks : Cardinality(returned[p]) <= 1
    /\ \A p, q \in Pks : p # q => returned[p] \cap returned[q] = {}

\* C5's case: both identities have been given a session, and the last call
\* was served from the cache
C5_Witness ==
    /\ \A p \in Pks : returned[p] # {}
    /\ Connected
    /\ last.exc = None
    /\ CacheKey(last.self) \in DOMAIN last.pre.cache
    /\ last.session = last.pre.cache[CacheKey(last.self)]

\* C6: a connection() call that finds no cached entry authenticates once and
\* caches the session that authentication built; one that finds an entry
\* does not authenticate.
C6_OneAuthentication ==
    Connected =>
        IF CacheKey(last.self) \in DOMAIN last.pre.cache
        THEN last.calls = << >> /\ nsessions = last.pre.nsessions
        ELSE /\ Len(last.calls) <= 1
             /\ nsessions <= last.pre.nsessions + 1
             /\ (last.exc = None /\ last.session # NoSession)
                    => /\ Len(last.calls) = 1
                       /\ last.session = last.pre.nsessions + 1
                       /\ kadmin_connections[CacheKey(last.self)] = last.session

\* connection() found no entry for the source
Missed == Connected /\ CacheKey(last.self) \notin DOMAIN last.pre.cache

\* the fields of the source give _kadmin_init nothing to authenticate with
NoCredentials(self) ==
    \/ self.sync_principal = ""
    \/ /\ self.sync_password = ""
       /\ self.sync_keytab = << >>
       /\ self.sync_ccache = ""

\* the fields of the source lead _kadmin_init to a kadmin.init_with_* call
\* (a keytab without ':' does not get that far, C8)
Authenticates(self) ==
    /\ self.sync_principal # ""
    /\ \/ self.sync_password # ""
       \/ ":" \in RangeOf(self.sync_keytab)
       \/ self.sync_keytab = << >> /\ self.sync_ccache # ""

\* C15: a null result of _kadmin_init is never stored: connection() then
\* returns None and leaves the cache (and everything else) as it was, so the
\* next call for the source finds no entry and runs _kadmin_init again; an
\* error raised by _kadmin_init reaches the caller and leaves the cache as it
\* was.
C15_NullNeverStored ==
    /\ \A k \in DOMAIN kadmin_connections : kadmin_connections[k] # NoSession
    /\ Missed =>
           /\ NoCredentials(last.self)
                  => /\ last.exc = None /\ last.session = NoSession
                     /\ last.calls = << >>
                     /\ kadmin_connections = last.pre.cache
                     /\ nsessions = last.pre.nsessions
                     /\ files = last.pre.files
           /\ (last.exc = None /\ last.session = NoSession)
                  => NoCredentials(last.self)
           /\ last.exc # None
                  => /\ kadmin_connections = last.pre.cache
                     /\ last.session = NoSession
           /\ Authenticates(last.self) => Len(last.calls) >= 1

\* C15's case: an earlier call authenticated once and then raised (a session
\* was built, nothing is cached), and the last call, for a source without a
\* principal, returned None and stored nothing
C15_Witness ==
    /\ Missed
    /\ last.pre.nsessions >= 1
    /\ last.pre.cache = EmptyDict
    /\ last.self.sync_principal = ""
    /\ last.exc = None /\ last.session = NoSession
    /\ kadmin_connections = EmptyDict

-----------------------------------------------------------------------------
(* Claims about the cache over the life of the process (SpecProcess) *)

\* C18: the cache never holds None, and no step of connection() or
\* check_connection(), whatever the credential fields of the source are by
\* then, removes or replaces an entry; a connection() that finds an entry
\* returns it without authenticating, so after the credentials were changed
\* it still returns the session built with the old ones.
C18_EntriesPersist ==
    [][ /\ \A k \in DOMAIN kadmin_connections :
              /\ k \in DOMAIN kadmin_connections'
              /\ kadmin_connections'[k] = kadmin_connections[k]
        /\ \A k \in DOMAIN kadmin_connections' :
              kadmin_connections'[k] # NoSession
        /\ ( /\ last'.op = "connection"
             /\ CacheKey(last'.self) \in DOMAIN kadmin_connections )
           => /\ last'.exc = None
              /\ last'.session = kadmin_connections[CacheKey(last'.self)]
              /\ last'.calls = << >>
      ]_vars

\* C18's case: connection() for a source whose row has no principal any more
\* returned the session cached for it, in a process in which a health check
\* of the source has run as well
C18_Witness ==
    /\ Connected
    /\ last.self.sync_principal = ""
    /\ last.exc = None
    /\ last.session # NoSession
    /\ last.session = kadmin_connections[CacheKey(last.self)]
    /\ ConfPath(last.self.pk) \in DOMAIN files

-----------------------------------------------------------------------------
(* Claims about the credential resolution (SpecInit) *)

Resolved == last.op = "_kadmin_init"

OneCall(fn) == Len(last.calls) = 1 /\ last.calls[1].fn = fn

\* C7: _kadmin_init returns no session when sync_principal is empty; else it
\* makes exactly one authentication call: with the password if sync_password
\* is set, else with the keytab if sync_keytab is set, else with the
\* credential cache if sync_ccache is set, else none.
C7_CredentialPrecedence ==
    Resolved =>
        IF last.self.sync_principal = ""
        THEN last.calls = << >> /\ last.exc = None /\ last.session = NoSession
        ELSE IF last.self.sync_password # ""
        THEN /\ OneCall("init_with_password")
             /\ last.calls[1].password = last.self.sync_password
        ELSE IF last.self.sync_keytab # << >>
        THEN OneCall("init_with_keytab")
        ELSE IF last.self.sync_ccache # ""
        THEN /\ OneCall("init_with_ccache")
             /\ last.calls[1].ccache = last.self.sync_ccache
        ELSE last.calls = << >> /\ last.exc = None /\ last.session = NoSession

\* C8: with a principal, no password and a keytab: a keytab containing ':' is
\* passed on unchanged and nothing is written; a keytab without ':' is
\* base64-decoded, the bytes are written to the source's scratch keytab file
\* and the session is built with FILE:<that path>.
C8_KeytabHandling ==
    ( /\ Resolved
      /\ last.self.sync_principal # ""
      /\ last.self.sync_password = ""
      /\ last.self.sync_keytab # << >> )
    => IF ":" \in RangeOf(last.self.sync_keytab)
       THEN /\ OneCall("init_with_keytab")
            /\ last.calls[1].keytab = last.self.sync_keytab
            /\ files = last.pre.files
       ELSE /\ OneCall("init_with_keytab")
            /\ last.calls[1].keytab
                   = << "FILE", ":", KeytabPath(last.self.pk) >>
            /\ KeytabPath(last.self.pk) \in DOMAIN files
            /\ files[KeytabPath(last.self.pk)]
                   = b64decode(last.self.sync_keytab)

====
